---- MODULE Spec2Model ----
(***************************************************************************)
(* Transactions of blockchain-rust (src/transactions/transaction.rs):      *)
(* construction (new_coinbase, new_utxo), hashing (set_hash), signing      *)
(* (sign) and verification (verify, is_coinbase, trimmed_copy).            *)
(*                                                                         *)
(* Byte strings (keys, key hashes, prior transaction ids) are strings,     *)
(* "" being the empty byte string.  The hash of a serialized transaction   *)
(* is the tuple of the serialized fields (an injective, collision-free     *)
(* hash); String::new() is the empty tuple.  A signature is the pair of    *)
(* the signing key and the signed message; vec![] is the empty tuple.      *)
(***************************************************************************)
EXTENDS Integers, Sequences, FiniteSets, TLC

VARIABLES utxo_set, bc, tx, op, outcome, origin, signed, call, digests, tampers

vars == <<utxo_set, bc, tx, op, outcome, origin, signed, call, digests, tampers>>

(***************************************************************************)
(* Bounds of the model.                                                    *)
(***************************************************************************)
\* Largest number of entries in the spendable-output index.
MaxUtxo == 2
\* Largest number of field changes made to a transaction between its
\* construction and its verification.
MaxTamper == 2

(***************************************************************************)
(* Program constants.                                                      *)
(***************************************************************************)
SUBSIDY == 10
MaxI32 == 2147483647
MinI32 == (-MaxI32) - 1

(***************************************************************************)
(* i32 subtraction (line 56).  value is the wrapped result (a build        *)
(* without overflow checks); overflow tells whether the mathematical       *)
(* result leaves the i32 range (a build with overflow checks panics).      *)
(***************************************************************************)
Sub32(a, b) ==
    IF b > 0 /\ a < MinI32 + b
    THEN [overflow |-> TRUE, value |-> ((a - MinI32) + (MaxI32 - b)) + 1]
    ELSE IF b < 0 /\ a > MaxI32 + b
    THEN [overflow |-> TRUE, value |-> (a + MinI32) + (MinI32 - b)]
    ELSE [overflow |-> FALSE, value |-> a - b]

(***************************************************************************)
(* Collaborators outside transaction.rs: wallets, keys, hashing, ECDSA.    *)
(***************************************************************************)
\* Addresses with a wallet in the wallet store.
WalletAddrs == {"A", "B", "M"}
\* All addresses used; "U" has no wallet.
Addrs == WalletAddrs \cup {"U"}

\* Wallet::get_public_key, Wallet::get_pkcs8
PublicKey == [a \in WalletAddrs |-> "pk" \o a]
Pkcs8 == [a \in WalletAddrs |-> "sk" \o a]
\* The public key of a private key document.
PublicOf == [k \in {Pkcs8[a] : a \in WalletAddrs} |->
                PublicKey[CHOOSE a \in WalletAddrs : Pkcs8[a] = k]]

\* utils::hash_pub_key: a one-way, injective digest of a public key.
hash_pub_key(pk) == "h" \o pk
\* The key hash an address encodes (what Txoutput::new locks the output to).
AddrHash == [a \in Addrs |-> "hpk" \o a]

\* utils::serialize followed by utils::hash_to_str: the fields, in order.
hash_to_str(t) == <<t.id, t.vin, t.vout>>

\* utils::ecdsa_p256_sha256_sign_digest
ecdsa_p256_sha256_sign_digest(pkcs8, msg) == <<pkcs8, msg>>
\* utils::ecdsa_p256_sha256_sign_verify
ecdsa_p256_sha256_sign_verify(pub_key, signature, msg) ==
    /\ Len(signature) = 2
    /\ PublicOf[signature[1]] = pub_key
    /\ signature[2] = msg

\* Txinput::new, Txinput::default, Txoutput::new
TxinputNew(txid, vout, pub_key) ==
    [txid |-> txid, vout |-> vout, signature |-> <<>>, pub_key |-> pub_key]
TxinputDefault == [txid |-> "", vout |-> 0, signature |-> <<>>, pub_key |-> ""]
TxoutputNew(value, address) == [value |-> value, pub_key_hash |-> AddrHash[address]]

\* Transaction::default()
NoTx == [id |-> <<>>, vin |-> <<>>, vout |-> <<>>]

(***************************************************************************)
(* The chain (prior-transaction resolver) and the spendable-output index.  *)
(***************************************************************************)
TxIds == {"t1", "t2"}
\* An output of a prior transaction, of value 5, locked to address a.
PriorOut(a) == [value |-> 5, pub_key_hash |-> AddrHash[a]]
\* "t1" has two outputs and "t2" one, all locked to "A".
PriorTx ==
    [t \in TxIds |->
        [id |-> <<>>, vin |-> <<TxinputDefault>>,
         vout |-> IF t = "t1" THEN <<PriorOut("A"), PriorOut("A")>>
                              ELSE <<PriorOut("A")>>]]
\* The chains: any subset of the prior transactions is stored.
Chains == {[t \in D |-> PriorTx[t]] : D \in SUBSET TxIds}

\* Blockchain::find_transaction
Found(chain, txid) == txid \in DOMAIN chain

\* Entries of the index: (txid, output index, value, key hash), in the
\* iteration order of the store.
UtxoEntries ==
    <<[txid |-> "t1", idx |-> 0, value |-> 5, pub_key_hash |-> AddrHash["A"]],
      [txid |-> "t1", idx |-> 1, value |-> 5, pub_key_hash |-> AddrHash["A"]],
      [txid |-> "t2", idx |-> 0, value |-> 5, pub_key_hash |-> AddrHash["A"]],
      [txid |-> "t2", idx |-> 1, value |-> 5, pub_key_hash |-> AddrHash["A"]]>>

RECURSIVE Pick(_, _)
\* The entries of UtxoEntries at the positions in S, in order.
Pick(S, i) ==
    IF i > Len(UtxoEntries) THEN <<>>
    ELSE (IF i \in S THEN <<UtxoEntries[i]>> ELSE <<>>) \o Pick(S, i + 1)

Indexes ==
    {Pick(S, 1) : S \in {X \in SUBSET (1..Len(UtxoEntries)) : Cardinality(X) <= MaxUtxo}}

RECURSIVE Spendable(_, _, _, _, _)
\* UTXOSet::find_spendable_outputs: accumulate outputs locked to the hash
\* while the total is below the amount.
Spendable(index, i, pub_key_hash, amount, acc) ==
    IF i > Len(index) THEN acc
    ELSE IF index[i].pub_key_hash = pub_key_hash /\ acc.accumulated < amount
    THEN Spendable(index, i + 1, pub_key_hash, amount,
                   [accumulated |-> acc.accumulated + index[i].value,
                    outputs |-> Append(acc.outputs, index[i])])
    ELSE Spendable(index, i + 1, pub_key_hash, amount, acc)

find_spendable_outputs(index, pub_key_hash, amount) ==
    Spendable(index, 1, pub_key_hash, amount, [accumulated |-> 0, outputs |-> <<>>])

(***************************************************************************)
(* Transaction (lines 14-161).                                             *)
(***************************************************************************)
\* set_hash (lines 70-74): the id becomes the hash of the serialized
\* transaction, whose fields include the id it had.
set_hash(t) == [t EXCEPT !.id = hash_to_str(t)]

\* is_coinbase telling a reward by its empty prior transaction id instead
\* of its empty public key.
is_coinbase_by_txid(t) == Len(t.vin) = 1 /\ t.vin[1].txid = ""

\* is_coinbase (lines 129-131)
is_coinbase(t) == Len(t.vin) = 1 /\ t.vin[1].pub_key = ""

\* trimmed_copy (lines 133-148)
trimmed_copy(t) ==
    [id |-> t.id,
     vin |-> [i \in 1..Len(t.vin) |-> TxinputNew(t.vin[i].txid, t.vin[i].vout, "")],
     vout |-> t.vout]

\* new_coinbase (lines 22-34)
new_coinbase(to) ==
    set_hash([id |-> <<>>, vin |-> <<TxinputDefault>>,
              vout |-> <<TxoutputNew(SUBSIDY, to)>>])

\* sign_step without line 90: the key hash set for input idx stays in the
\* scratch copy.
sign_step_keeps_key(tx_copy, idx, prev_tx, vin) ==
    LET c1 == [tx_copy EXCEPT !.vin[idx].signature = <<>>]
        c2 == [c1 EXCEPT !.vin[idx].pub_key = prev_tx.vout[vin.vout + 1].pub_key_hash]
    IN  set_hash(c2)

\* The body of the loop of sign that changes the scratch copy (lines 86-90);
\* the id of the result is the digest that is signed.
sign_step(tx_copy, idx, prev_tx, vin) ==
    LET c1 == [tx_copy EXCEPT !.vin[idx].signature = <<>>]
        c2 == [c1 EXCEPT !.vin[idx].pub_key = prev_tx.vout[vin.vout + 1].pub_key_hash]
        c3 == set_hash(c2)
    IN  [c3 EXCEPT !.vin[idx].pub_key = ""]

RECURSIVE sign_loop(_, _, _, _, _, _)
\* The loop of sign (lines 79-95), from input idx on; ds are the digests
\* signed so far.
sign_loop(t, tx_copy, idx, chain, pkcs8, ds) ==
    IF idx > Len(t.vin) THEN [status |-> "ok", tx |-> t, digests |-> ds]
    ELSE LET vin == t.vin[idx] IN
         IF ~Found(chain, vin.txid)
         THEN [status |-> "panic_prev_tx", tx |-> NoTx, digests |-> ds]
         ELSE IF (vin.vout + 1) \notin DOMAIN chain[vin.txid].vout
         THEN [status |-> "panic_index", tx |-> NoTx, digests |-> ds]
         ELSE LET c == sign_step(tx_copy, idx, chain[vin.txid], vin)
                  signature == ecdsa_p256_sha256_sign_digest(pkcs8, c.id)
              IN  sign_loop([t EXCEPT !.vin[idx].signature = signature],
                            c, idx + 1, chain, pkcs8, Append(ds, c.id))

\* sign (lines 76-96)
sign(t, chain, pkcs8) == sign_loop(t, trimmed_copy(t), 1, chain, pkcs8, <<>>)

\* The body of the loop of verify that changes the scratch copy (lines
\* 109-113); the id of the result is the digest the signature is checked on.
verify_step(tx_copy, idx, prev_tx, vin) ==
    LET c1 == [tx_copy EXCEPT !.vin[idx].signature = <<>>]
        c2 == [c1 EXCEPT !.vin[idx].pub_key = prev_tx.vout[vin.vout + 1].pub_key_hash]
        c3 == set_hash(c2)
    IN  [c3 EXCEPT !.vin[idx].pub_key = ""]

\* The signature check of verify (lines 116-120).
verify_input(vin, tx_copy) ==
    ecdsa_p256_sha256_sign_verify(vin.pub_key, vin.signature, tx_copy.id)

RECURSIVE verify_loop(_, _, _, _, _)
\* The loop of verify (lines 103-125), from input idx on.
verify_loop(t, tx_copy, idx, chain, ds) ==
    IF idx > Len(t.vin) THEN [status |-> "true", digests |-> ds]
    ELSE LET vin == t.vin[idx] IN
         IF ~Found(chain, vin.txid)
         THEN [status |-> "panic_prev_tx", digests |-> ds]
         ELSE IF (vin.vout + 1) \notin DOMAIN chain[vin.txid].vout
         THEN [status |-> "panic_index", digests |-> ds]
         ELSE LET c == verify_step(tx_copy, idx, chain[vin.txid], vin) IN
              IF ~verify_input(vin, c)
              THEN [status |-> "false", digests |-> Append(ds, c.id)]
              ELSE verify_loop(t, c, idx + 1, chain, Append(ds, c.id))

\* verify returning false, instead of panicking, for a prior transaction
\* that is not found.
verify_missing_is_false(t, chain) ==
    LET r == IF is_coinbase(t) THEN [status |-> "true", digests |-> <<>>]
             ELSE verify_loop(t, trimmed_copy(t), 1, chain, <<>>)
    IN  IF r.status = "panic_prev_tx" THEN [r EXCEPT !.status = "false"] ELSE r

\* verify (lines 98-126)
verify(t, chain) ==
    IF is_coinbase(t) THEN [status |-> "true", digests |-> <<>>]
    ELSE verify_loop(t, trimmed_copy(t), 1, chain, <<>>)

(***************************************************************************)
(* new_utxo (lines 36-68).                                                 *)
(***************************************************************************)
\* The orders in which the map valid_outputs can yield its keys.
TxidOrders(outputs) ==
    LET S == {outputs[i].txid : i \in 1..Len(outputs)}
    IN  {s \in [1..Cardinality(S) -> S] :
            \A i, j \in 1..Cardinality(S) : i # j => s[i] # s[j]}

RECURSIVE new_inputs(_, _, _, _)
\* The inputs (lines 46-52): for each txid, from the k-th of the order on,
\* one input per selected output index.
new_inputs(outputs, order, k, pub_key) ==
    IF k > Len(order) THEN <<>>
    ELSE LET group == SelectSeq(outputs, LAMBDA e : e.txid = order[k])
         IN  [i \in 1..Len(group) |-> TxinputNew(group[i].txid, group[i].idx, pub_key)]
             \o new_inputs(outputs, order, k + 1, pub_key)

\* The outputs (lines 54-57), without overflow (accumulated >= amount).
new_outputs(from, to, amount, accumulated) ==
    IF accumulated > amount
    THEN <<TxoutputNew(amount, to),
           TxoutputNew(Sub32(accumulated, amount).value, from)>>
    ELSE <<TxoutputNew(amount, to)>>

\* new_utxo: order is the iteration order of valid_outputs, overflow_checks
\* tells whether the build panics on arithmetic overflow.
new_utxo(from, to, amount, index, chain, order, overflow_checks) ==
    LET none == [status |-> "", tx |-> NoTx, accumulated |-> 0,
                 selected |-> <<>>, digests |-> <<>>]
    IN
    IF from \notin WalletAddrs THEN [none EXCEPT !.status = "panic_wallet"]
    ELSE
    LET public_key_hash == hash_pub_key(PublicKey[from])
        found == find_spendable_outputs(index, public_key_hash, amount)
        got == [none EXCEPT !.accumulated = found.accumulated,
                            !.selected = found.outputs]
    IN
    IF found.accumulated < amount THEN [got EXCEPT !.status = "panic_funds"]
    ELSE IF /\ found.accumulated > amount
            /\ Sub32(found.accumulated, amount).overflow
            /\ overflow_checks
    THEN [got EXCEPT !.status = "panic_overflow"]
    ELSE
    LET t == set_hash([id |-> <<>>,
                       vin |-> new_inputs(found.outputs, order, 1, PublicKey[from]),
                       vout |-> new_outputs(from, to, amount, found.accumulated)])
        s == sign(t, chain, Pkcs8[from])
    IN  [got EXCEPT !.status = s.status, !.tx = s.tx, !.digests = s.digests]

(***************************************************************************)
(* The state machine.                                                      *)
(***************************************************************************)
Senders == {"A", "U"}
Recipients == {"B"}
Amounts == {MinI32, -1, 0, 4, 5, 10, 11, MaxI32}

NoCall == [from |-> "", to |-> "", amount |-> 0, accumulated |-> 0, selected |-> <<>>]
NoSigned == [tx |-> NoTx, digests |-> <<>>]

Init ==
    /\ utxo_set \in Indexes
    /\ bc \in Chains
    /\ tx = NoTx
    /\ op = "init"
    /\ outcome = "none"
    /\ origin = "none"
    /\ signed = NoSigned
    /\ call = NoCall
    /\ digests = <<>>
    /\ tampers = 0

\* A constructor is called on a transaction-free or freshly built state.
Fresh == op \in {"init", "new_coinbase", "new_utxo"}

\* A call of new_coinbase.
NewCoinbase(to) ==
    /\ Fresh
    /\ tx' = new_coinbase(to)
    /\ op' = "new_coinbase"
    /\ outcome' = "ok"
    /\ origin' = "coinbase"
    /\ signed' = [tx |-> tx', digests |-> <<>>]
    /\ call' = [NoCall EXCEPT !.to = to]
    /\ digests' = <<>>
    /\ tampers' = 0
    /\ UNCHANGED <<utxo_set, bc>>

\* A call of new_utxo: it returns a transaction or panics.
NewUtxo(from, to, amount) ==
    /\ Fresh
    /\ \E overflow_checks \in BOOLEAN :
      \E order \in TxidOrders(
            IF from \in WalletAddrs
            THEN find_spendable_outputs(utxo_set, hash_pub_key(PublicKey[from]),
                                        amount).outputs
            ELSE <<>>) :
        LET r == new_utxo(from, to, amount, utxo_set, bc, order, overflow_checks)
        IN  /\ tx' = r.tx
            /\ op' = "new_utxo"
            /\ outcome' = r.status
            /\ origin' = IF r.status = "ok" THEN "spend" ELSE "none"
            /\ signed' = IF r.status = "ok"
                         THEN [tx |-> r.tx, digests |-> r.digests] ELSE NoSigned
            /\ call' = [from |-> from, to |-> to, amount |-> amount,
                        accumulated |-> r.accumulated, selected |-> r.selected]
            /\ digests' = r.digests
            /\ tampers' = 0
            /\ UNCHANGED <<utxo_set, bc>>

\* A call of verify on the transaction at hand.
Verify ==
    /\ origin # "none"
    /\ LET r == verify(tx, bc)
       IN  /\ outcome' = r.status
           /\ digests' = r.digests
    /\ op' = "verify"
    /\ UNCHANGED <<utxo_set, bc, tx, origin, signed, call, tampers>>

\* verify is given a chain (line 98) that no longer holds a transaction
\* the chain given to new_utxo (line 36) held.
Forget(txid) ==
    /\ origin # "none"
    /\ txid \in DOMAIN bc
    /\ bc' = [t \in DOMAIN bc \ {txid} |-> bc[t]]
    /\ op' = "forget"
    /\ outcome' = "none"
    /\ digests' = <<>>
    /\ UNCHANGED <<utxo_set, tx, origin, signed, call, tampers>>

(***************************************************************************)
(* A transaction is a serde value (line 14): what verify is given may      *)
(* differ from what the constructors returned.                             *)
(***************************************************************************)
Tampered(t) ==
    /\ origin # "none"
    /\ tampers < MaxTamper
    /\ t # tx
    /\ tx' = t
    /\ tampers' = tampers + 1
    /\ op' = "tamper"
    /\ outcome' = "none"
    /\ digests' = <<>>
    /\ UNCHANGED <<utxo_set, bc, origin, signed, call>>

TamperOutputValue(j, v) ==
    /\ j \in DOMAIN tx.vout
    /\ Tampered([tx EXCEPT !.vout[j].value = v])

TamperOutputLock(j, a) ==
    /\ j \in DOMAIN tx.vout
    /\ Tampered([tx EXCEPT !.vout[j].pub_key_hash = AddrHash[a]])

TamperInputTxid(i, txid) ==
    /\ i \in DOMAIN tx.vin
    /\ Tampered([tx EXCEPT !.vin[i].txid = txid])

TamperInputVout(i, n) ==
    /\ i \in DOMAIN tx.vin
    /\ Tampered([tx EXCEPT !.vin[i].vout = n])

TamperInputKey(i, pk) ==
    /\ i \in DOMAIN tx.vin
    /\ Tampered([tx EXCEPT !.vin[i].pub_key = pk])

TamperInputSignature(i, sig) ==
    /\ i \in DOMAIN tx.vin
    /\ Tampered([tx EXCEPT !.vin[i].signature = sig])

\* The holder of wallet a claims every input with its own public key
\* (line 49) and signs the transaction with its own private key (line 65).
Resign(a) ==
    LET claimed == [tx EXCEPT !.vin = [i \in DOMAIN tx.vin |->
                                         [tx.vin[i] EXCEPT !.pub_key = PublicKey[a]]]]
        s == sign(claimed, bc, Pkcs8[a])
    IN  /\ tx.vin # <<>>
        /\ s.status = "ok"
        /\ Tampered(s.tx)

\* Positions of inputs (one per index entry at most) and of outputs (two at
\* most, lines 54-57).
InputPositions == 1..MaxUtxo
OutputPositions == 1..2
TamperValues == {0, 99}
TamperTxids == {"t1", "t9"}
TamperVouts == {0, 2}
TamperKeys == {"", PublicKey["M"]}
TamperSignatures == {<<>>, <<"junk">>}

Next ==
    \/ \E to \in Recipients : NewCoinbase(to)
    \/ \E from \in Senders, to \in Recipients, amount \in Amounts :
          NewUtxo(from, to, amount)
    \/ Verify
    \/ \E txid \in TxIds : Forget(txid)
    \/ \E j \in OutputPositions, v \in TamperValues : TamperOutputValue(j, v)
    \/ \E j \in OutputPositions : TamperOutputLock(j, "M")
    \/ \E i \in InputPositions, txid \in TamperTxids : TamperInputTxid(i, txid)
    \/ \E i \in InputPositions, n \in TamperVouts : TamperInputVout(i, n)
    \/ \E i \in InputPositions, pk \in TamperKeys : TamperInputKey(i, pk)
    \/ \E i \in InputPositions, sig \in TamperSignatures : TamperInputSignature(i, sig)
    \/ Resign("M")

Spec == Init /\ [][Next]_vars

(***************************************************************************)
(* Vocabulary of the properties.                                           *)
(***************************************************************************)
\* verify returned a boolean / did not return.
Booleans == {"true", "false"}
Failures == {"panic_prev_tx", "panic_index"}

\* The prior output input i of t refers to exists in the chain.
Resolvable(t, i) ==
    /\ Found(bc, t.vin[i].txid)
    /\ (t.vin[i].vout + 1) \in DOMAIN bc[t.vin[i].txid].vout

\* The key hash that prior output is locked to.
PriorLock(t, i) == bc[t.vin[i].txid].vout[t.vin[i].vout + 1].pub_key_hash

\* t has exactly one input, whose public key is empty.
OneInputEmptyKey(t) == Len(t.vin) = 1 /\ t.vin[1].pub_key = ""

\* The transaction at hand is the one new_utxo returned, and the chain
\* still holds the prior transaction of each of its inputs.
AsSigned ==
    /\ origin = "spend"
    /\ tx = signed.tx
    /\ \A i \in DOMAIN tx.vin : Resolvable(tx, i)

\* The transaction at hand is the one new_utxo returned but for the value
\* or the key hash of exactly one output, and the chain still holds the
\* prior transaction of each of its inputs.
OneOutputChanged ==
    /\ origin = "spend"
    /\ \A i \in DOMAIN tx.vin : Resolvable(tx, i)
    /\ tx.id = signed.tx.id
    /\ tx.vin = signed.tx.vin
    /\ Len(tx.vout) = Len(signed.tx.vout)
    /\ Cardinality({j \in DOMAIN tx.vout : tx.vout[j] # signed.tx.vout[j]}) = 1

(***************************************************************************)
(* C1: a transaction returned by new_utxo, verified against the chain it   *)
(* was signed against, verifies true, and at every input position verify   *)
(* derives the digest that sign signed.                                    *)
(***************************************************************************)
C1_SignVerifyRoundTrip ==
    (op = "verify" /\ AsSigned) =>
        (outcome = "true" /\ digests = signed.digests)

C1_Witness ==
    /\ op = "verify" /\ AsSigned
    /\ Len(tx.vin) = 2
    /\ Len(digests) = 2
    /\ outcome = "true"

(***************************************************************************)
(* C2: once the value or the key hash of one output of a transaction       *)
(* returned by new_utxo is changed, verify returns false.                  *)
(***************************************************************************)
C2_TamperedOutputRejected ==
    (op = "verify" /\ OneOutputChanged) => outcome = "false"

(***************************************************************************)
(* C3: a transaction that is no reward, whose prior outputs all exist and  *)
(* one of whose inputs carries a public key that does not hash to the key  *)
(* hash of the prior output it refers to, verifies false.                  *)
(***************************************************************************)
C3_ForgedKeyRejected ==
    ( /\ op = "verify"
      /\ ~OneInputEmptyKey(tx)
      /\ \A i \in DOMAIN tx.vin : Resolvable(tx, i)
      /\ \E i \in DOMAIN tx.vin : hash_pub_key(tx.vin[i].pub_key) # PriorLock(tx, i) )
    => outcome = "false"

(***************************************************************************)
(* C4: a transaction returned by new_utxo has one output of the amount,    *)
(* locked to the recipient, and, exactly when the accumulated total        *)
(* exceeds the amount, a second one of accumulated - amount locked to the  *)
(* sender; the values add up to the accumulated total.                     *)
(***************************************************************************)
C4_FundConservation ==
    (op = "new_utxo" /\ outcome = "ok") =>
        /\ Len(tx.vout) \in {1, 2}
        /\ tx.vout[1] = [value |-> call.amount, pub_key_hash |-> AddrHash[call.to]]
        /\ (Len(tx.vout) = 2) <=> (call.accumulated > call.amount)
        /\ Len(tx.vout) = 1 => tx.vout[1].value = call.accumulated
        /\ Len(tx.vout) = 2 =>
              /\ tx.vout[2].pub_key_hash = AddrHash[call.from]
              /\ ~Sub32(call.accumulated, call.amount).overflow
              /\ tx.vout[2].value = call.accumulated - call.amount

(***************************************************************************)
(* C5: new_utxo returns a transaction exactly when the sender has a        *)
(* wallet, the accumulated total reaches the amount and the prior          *)
(* transaction of every selected output is found; otherwise it returns     *)
(* nothing.                                                                *)
(***************************************************************************)
C5_AllOrNothing ==
    op = "new_utxo" =>
        /\ (outcome = "ok") <=>
              /\ call.from \in WalletAddrs
              /\ call.accumulated >= call.amount
              /\ \A i \in DOMAIN call.selected : Found(bc, call.selected[i].txid)
        /\ outcome # "ok" => (tx = NoTx /\ origin = "none")

(***************************************************************************)
(* C6 as claimed: verify of a transaction one of whose inputs refers to a  *)
(* prior transaction the chain does not hold never returns a boolean.      *)
(***************************************************************************)
C6_MissingPriorAlwaysFatal ==
    (op = "verify" /\ \E i \in DOMAIN tx.vin : ~Found(bc, tx.vin[i].txid))
        => outcome \in Failures

(***************************************************************************)
(* C6 as amended: verify of a transaction that is no reward fails, for     *)
(* the missing prior transaction, when an input refers to a prior          *)
(* transaction the chain does not hold and every input before it has       *)
(* passed its signature check.                                             *)
(***************************************************************************)
PassedBefore(i) ==
    \A j \in 1..(i - 1) :
        /\ j <= Len(digests)
        /\ Resolvable(tx, j)
        /\ ecdsa_p256_sha256_sign_verify(tx.vin[j].pub_key, tx.vin[j].signature,
                                         digests[j])

C6_MissingPriorFatalWhenReached ==
    ( /\ op = "verify"
      /\ ~OneInputEmptyKey(tx)
      /\ \E i \in DOMAIN tx.vin : ~Found(bc, tx.vin[i].txid) /\ PassedBefore(i) )
    => outcome = "panic_prev_tx"

C6_Witness ==
    /\ op = "verify"
    /\ Len(tx.vin) = 2
    /\ Found(bc, tx.vin[1].txid)
    /\ ~Found(bc, tx.vin[2].txid)
    /\ PassedBefore(2)
    /\ outcome = "panic_prev_tx"

(***************************************************************************)
(* C7: verify returns a boolean, or fails because an input refers to a     *)
(* prior transaction the chain does not hold; nothing else makes it fail.  *)
(***************************************************************************)
C7_OnlyMissingPriorFails ==
    op = "verify" =>
        \/ outcome \in Booleans
        \/ /\ outcome = "panic_prev_tx"
           /\ \E i \in DOMAIN tx.vin : ~Found(bc, tx.vin[i].txid)

(***************************************************************************)
(* C8: is_coinbase holds exactly of the transactions with one input whose  *)
(* public key is empty; verify of such a transaction returns true without  *)
(* deriving a digest from the chain, whatever its other fields are; every  *)
(* transaction new_coinbase returns is one.                                *)
(***************************************************************************)
C8_RewardVerifies ==
    /\ is_coinbase(tx) <=> OneInputEmptyKey(tx)
    /\ (op = "verify" /\ OneInputEmptyKey(tx)) => (outcome = "true" /\ digests = <<>>)
    /\ op = "new_coinbase" => OneInputEmptyKey(tx)

C8_Witness ==
    /\ op = "verify"
    /\ origin = "coinbase"
    /\ OneInputEmptyKey(tx)
    /\ tx.vin[1].signature = <<"junk">>
    /\ ~Found(bc, tx.vin[1].txid)
    /\ outcome = "true"

(***************************************************************************)
(* C9: no output of a transaction returned by new_coinbase or new_utxo     *)
(* has a negative value.                                                   *)
(***************************************************************************)
C9_OutputsNonNegative ==
    (op \in {"new_coinbase", "new_utxo"} /\ outcome = "ok") =>
        \A j \in DOMAIN tx.vout : tx.vout[j].value >= 0

(***************************************************************************)
(* C10: the digest sign derives for input k is the hash of the             *)
(* transaction's own id, its inputs without signatures and with no key but *)
(* the key hash of the prior output of k, and its outputs; it stays the    *)
(* same when the key hash of the prior output of another input changes.    *)
(***************************************************************************)
\* The scratch copy for input k as the claim describes it.
Scratch(t, k) ==
    [trimmed_copy(t) EXCEPT !.vin[k].pub_key = PriorLock(t, k)]

\* The chain with the prior output of input j of t locked to address a.
Relocked(t, j, a) ==
    [bc EXCEPT ![t.vin[j].txid].vout[t.vin[j].vout + 1].pub_key_hash = AddrHash[a]]

\* Inputs j and k of t refer to different prior outputs.
OtherPrior(t, j, k) ==
    j # k /\ <<t.vin[j].txid, t.vin[j].vout>> # <<t.vin[k].txid, t.vin[k].vout>>

C10_DigestIsolation ==
    (op = "new_utxo" /\ outcome = "ok") =>
        \A k \in DOMAIN tx.vin :
            /\ digests[k] = hash_to_str(Scratch(tx, k))
            /\ \A j \in DOMAIN tx.vin :
                  OtherPrior(tx, j, k) =>
                      sign(tx, Relocked(tx, j, "M"), Pkcs8[call.from]).digests[k]
                          = digests[k]

====
